---------------------------- MODULE Spec2Model ----------------------------
(***************************************************************************)
(* Email Slicer with Insights (src/email_slicer_with_insights.py).         *)
(*                                                                         *)
(* A Python string is modelled as a sequence of one-character strings, so  *)
(* that strip, split, endswith, substring search, lower-casing and the     *)
(* validation regex are computed character by character.                   *)
(***************************************************************************)
EXTENDS Integers, Sequences, FiniteSets, TLC

VARIABLES
    pc,                  \* position of the running handler / function call
    email,               \* argument of validate_email / parse_email
    valid,               \* result of validate_email
    parsed,              \* result of parse_email (a record), or NoValue
    domain,              \* argument of provider_insights / detect_email_type
    provider,            \* result of provider_insights
    etype,               \* result of detect_email_type
    bulk_input,          \* text of the bulk text area
    lines,               \* the stripped non-blank lines of bulk_input
    idx,                 \* loop position in lines
    records,             \* list of records built by the bulk loop
    summary,             \* <<processed, valid_count>> once reported
    email_input,         \* text of the single-email input box
    reportlab,           \* REPORTLAB_AVAILABLE
    pdf_fails,           \* whether canvas/pdf generation raises in this run
    ui,                  \* widgets/messages emitted by the running handler
    calls,               \* core functions the single handler has called
    year                 \* result of fake_creation_year

vars == <<pc, email, valid, parsed, domain, provider, etype, bulk_input,
          lines, idx, records, summary, email_input, reportlab, pdf_fails,
          ui, calls, year>>

NoValue == <<"None">>

\* the summary variable before the summary line is written
NoSummary == [processed |-> 0, valid_count |-> 0, via |-> "none"]

\* the provider variable before provider_insights has returned
NoProvider ==
    [provider_name |-> "None", provider_type |-> "None", notes |-> "None"]

-----------------------------------------------------------------------------
(* Bounds of the model *)

\* longest string enumerated exhaustively for validate_email / parse_email
MaxLen == 6
\* most labels in a generated domain
MaxLabels == 3
\* most lines in a generated bulk input
MaxLines == 3

-----------------------------------------------------------------------------
(* Characters *)

LowerCase == <<"a","b","c","d","e","f","g","h","i","j","k","l","m",
               "n","o","p","q","r","s","t","u","v","w","x","y","z">>
UpperCase == <<"A","B","C","D","E","F","G","H","I","J","K","L","M",
               "N","O","P","Q","R","S","T","U","V","W","X","Y","Z">>
Digits == {"0","1","2","3","4","5","6","7","8","9"}

Range(s) == {s[i] : i \in 1..Len(s)}

Letters == Range(LowerCase) \cup Range(UpperCase)

\* str.strip() with no argument removes these (ASCII) whitespace characters
Whitespace == {" ", "\t", "\n", "\r", "\f"}

\* regex class [a-zA-Z0-9_.+-]
LocalClass == Letters \cup Digits \cup {"_", ".", "+", "-"}
\* regex class [a-zA-Z0-9-]
LabelClass == Letters \cup Digits \cup {"-"}
\* regex class [a-zA-Z0-9-.]
TailClass == Letters \cup Digits \cup {"-", "."}

-----------------------------------------------------------------------------
(* Python string primitives *)

AllIn(s, class) == \A i \in 1..Len(s) : s[i] \in class

\* c in s, for a character c
HasChar(s, c) == \E i \in 1..Len(s) : s[i] = c

\* s.startswith(p)
startswith(s, p) == Len(p) <= Len(s) /\ SubSeq(s, 1, Len(p)) = p

\* s.endswith(p)
endswith(s, p) ==
    Len(p) <= Len(s) /\ SubSeq(s, Len(s) - Len(p) + 1, Len(s)) = p

\* k in s, for a string k
contains(s, k) ==
    \E i \in 1..(Len(s) - Len(k) + 1) : SubSeq(s, i, i + Len(k) - 1) = k

RECURSIVE lstrip(_)
lstrip(s) ==
    IF s # <<>> /\ Head(s) \in Whitespace THEN lstrip(Tail(s)) ELSE s

RECURSIVE rstrip(_)
rstrip(s) ==
    IF s # <<>> /\ s[Len(s)] \in Whitespace
    THEN rstrip(SubSeq(s, 1, Len(s) - 1))
    ELSE s

\* str.strip() without the leading strip: what a one-sided trim would do
strip_trailing_only(s) == rstrip(s)

\* str.strip()
strip(s) == lstrip(rstrip(s))

\* first index of character c in s at or after position from, 0 if none
RECURSIVE find(_, _, _)
find(s, c, from) ==
    IF from > Len(s) THEN 0
    ELSE IF s[from] = c THEN from
    ELSE find(s, c, from + 1)

\* s.split(sep) for a one-character separator: all pieces, empty ones kept
RECURSIVE split(_, _)
split(s, sep) ==
    LET i == find(s, sep, 1)
    IN  IF i = 0 THEN <<s>>
        ELSE <<SubSeq(s, 1, i - 1)>> \o split(SubSeq(s, i + 1, Len(s)), sep)

\* s.split(sep, 1): at most one split, at the first separator
split1(s, sep) ==
    LET i == find(s, sep, 1)
    IN  IF i = 0 THEN <<s>>
        ELSE <<SubSeq(s, 1, i - 1), SubSeq(s, i + 1, Len(s))>>

lower_char(c) ==
    IF c \in Range(UpperCase)
    THEN LowerCase[CHOOSE i \in 1..Len(UpperCase) : UpperCase[i] = c]
    ELSE c

\* str.lower()
lower(s) == [i \in 1..Len(s) |-> lower_char(s[i])]

-----------------------------------------------------------------------------
(* validate_email *)

\* the body of ^[a-zA-Z0-9_.+-]+@[a-zA-Z0-9-]+\.[a-zA-Z0-9-.]+ anchored at
\* both ends of t
FullMatch(t) ==
    \E i \in 2..Len(t) : \E j \in (i + 2)..(Len(t) - 1) :
        /\ AllIn(SubSeq(t, 1, i - 1), LocalClass)
        /\ t[i] = "@"
        /\ AllIn(SubSeq(t, i + 1, j - 1), LabelClass)
        /\ t[j] = "."
        /\ AllIn(SubSeq(t, j + 1, Len(t)), TailClass)

\* re.match(pattern, t): "$" matches at the end of t and also just before a
\* newline that ends t
re_match(t) ==
    \/ FullMatch(t)
    \/ t # <<>> /\ t[Len(t)] = "\n" /\ FullMatch(SubSeq(t, 1, Len(t) - 1))

validate_email(e) ==
    IF e = <<>> \/ ~HasChar(e, "@") THEN FALSE
    ELSE re_match(strip(e))

-----------------------------------------------------------------------------
(* parse_email *)

\* parse_email that takes the second label as the extension
parse_email_second_label(e) ==
    LET s == strip(e)
        halves == split1(s, "@")
        domain_full == halves[2]
        domain_parts == split(domain_full, ".")
    IN  [username |-> halves[1],
         domain_full |-> domain_full,
         domain_name |-> IF domain_parts # <<>> THEN domain_parts[1]
                         ELSE domain_full,
         extension |-> IF Len(domain_parts) > 1 THEN domain_parts[2]
                       ELSE <<>>]

\* parse_email that trims only trailing whitespace
parse_email_half_strip(e) ==
    LET s == strip_trailing_only(e)
        halves == split1(s, "@")
        domain_full == halves[2]
        domain_parts == split(domain_full, ".")
    IN  [username |-> halves[1],
         domain_full |-> domain_full,
         domain_name |-> IF domain_parts # <<>> THEN domain_parts[1]
                         ELSE domain_full,
         extension |-> IF Len(domain_parts) > 1
                       THEN domain_parts[Len(domain_parts)]
                       ELSE <<>>]

\* precondition: e contains "@" (the tuple unpacking raises otherwise)
parse_email(e) ==
    LET s == strip(e)
        halves == split1(s, "@")
        domain_full == halves[2]
        domain_parts == split(domain_full, ".")
    IN  [username |-> halves[1],
         domain_full |-> domain_full,
         domain_name |-> IF domain_parts # <<>> THEN domain_parts[1]
                         ELSE domain_full,
         extension |-> IF Len(domain_parts) > 1
                       THEN domain_parts[Len(domain_parts)]
                       ELSE <<>>]

-----------------------------------------------------------------------------
(* provider_insights *)

\* the dict literal "mapping", in insertion (= iteration) order
mapping == <<
    [key |-> <<"g","m","a","i","l",".","c","o","m">>,
     val |-> <<"Google Mail", "Free/Consumer", "Popular personal email provider (Gmail).">>],
    [key |-> <<"g","o","o","g","l","e","m","a","i","l",".","c","o","m">>,
     val |-> <<"Google Mail", "Free/Consumer", "Alias for Gmail.">>],
    [key |-> <<"y","a","h","o","o",".","c","o","m">>,
     val |-> <<"Yahoo Mail", "Free/Consumer", "Popular consumer email provider.">>],
    [key |-> <<"o","u","t","l","o","o","k",".","c","o","m">>,
     val |-> <<"Microsoft Outlook", "Free/Consumer", "Microsoft consumer email service.">>],
    [key |-> <<"h","o","t","m","a","i","l",".","c","o","m">>,
     val |-> <<"Microsoft Hotmail/Outlook", "Free/Consumer", "Legacy Hotmail (now Outlook).">>],
    [key |-> <<"l","i","v","e",".","c","o","m">>,
     val |-> <<"Microsoft Live/Outlook", "Free/Consumer", "Microsoft's Live/Outlook domains.">>],
    [key |-> <<"p","r","o","t","o","n","m","a","i","l",".","c","o","m">>,
     val |-> <<"Proton Mail", "Privacy-focused", "End-to-end encrypted email service.">>],
    [key |-> <<"i","c","l","o","u","d",".","c","o","m">>,
     val |-> <<"Apple iCloud Mail", "Free/Consumer", "Apple's consumer email service.">>],
    [key |-> <<"z","o","h","o",".","c","o","m">>,
     val |-> <<"Zoho Mail", "Business/SMB", "Often used for small-business/custom domains.">>],
    [key |-> <<"a","o","l",".","c","o","m">>,
     val |-> <<"AOL Mail", "Free/Consumer", "Legacy consumer email provider.">>],
    [key |-> <<"m","a","i","l",".","c","o","m">>,
     val |-> <<"mail.com", "Free/Consumer", "Consumer email service with multiple domain choices.">>],
    [key |-> <<"g","m","x",".","c","o","m">>,
     val |-> <<"GMX Mail", "Free/Consumer", "European consumer email provider.">>] >>

ProviderRecord(val) ==
    [provider_name |-> val[1], provider_type |-> val[2], notes |-> val[3]]

EduProvider ==
    [provider_name |-> "Educational (edu)", provider_type |-> "Institutional",
     notes |-> "Typically a university/college email."]

GovProvider ==
    [provider_name |-> "Government (gov)", provider_type |-> "Institutional",
     notes |-> "Government domain."]

CustomProvider ==
    [provider_name |-> "Custom / Organization",
     provider_type |-> "Custom/Business",
     notes |-> "Could be a company or self-hosted email. Provider-specific features unknown."]

\* the test of the for loop's if, on the lower-cased domain d
KeyMatches(d, key) == d = key \/ endswith(d, <<".">> \o key)

\* the for loop over mapping.items(), from entry i on; the code after the
\* loop when no entry matches
RECURSIVE provider_loop(_, _)
provider_loop(d, i) ==
    IF i > Len(mapping) THEN
        IF endswith(d, <<".","e","d","u">>) THEN EduProvider
        ELSE IF endswith(d, <<".","g","o","v">>) THEN GovProvider
        ELSE CustomProvider
    ELSE IF KeyMatches(d, mapping[i].key) THEN ProviderRecord(mapping[i].val)
    ELSE provider_loop(d, i + 1)

\* provider_insights that compares the domain as typed, not lower-cased
provider_insights_case_sensitive(domain_full) == provider_loop(domain_full, 1)

provider_insights(domain_full) == provider_loop(lower(domain_full), 1)

-----------------------------------------------------------------------------
(* detect_email_type *)

personal_keywords == <<
    <<"g","m","a","i","l">>,
    <<"y","a","h","o","o">>,
    <<"h","o","t","m","a","i","l">>,
    <<"o","u","t","l","o","o","k">>,
    <<"i","c","l","o","u","d">>,
    <<"a","o","l">>,
    <<"p","r","o","t","o","n","m","a","i","l">>,
    <<"g","m","x">>,
    <<"m","a","i","l",".","c","o","m">>,
    <<"z","o","h","o">> >>

IsEduSuffix(d) ==
    \/ endswith(d, <<".","e","d","u">>)
    \/ endswith(d, <<".","a","c",".","i","n">>)
    \/ endswith(d, <<".","e","d","u",".","i","n">>)

\* detect_email_type with the suffix tests ahead of the keyword test
detect_email_type_suffix_first(domain_full) ==
    LET d == lower(domain_full)
    IN  IF IsEduSuffix(d) THEN "Educational / Academic Email"
        ELSE IF endswith(d, <<".","g","o","v">>) THEN "Government Email"
        ELSE IF \E i \in 1..Len(personal_keywords) :
                    contains(d, personal_keywords[i])
        THEN "Personal Email"
        ELSE "Business / Organizational Email"

detect_email_type(domain_full) ==
    LET d == lower(domain_full)
    IN  IF \E i \in 1..Len(personal_keywords) :
               contains(d, personal_keywords[i])
        THEN "Personal Email"
        ELSE IF IsEduSuffix(d) THEN "Educational / Academic Email"
        ELSE IF endswith(d, <<".","g","o","v">>) THEN "Government Email"
        ELSE "Business / Organizational Email"

-----------------------------------------------------------------------------
(* tld_info, suggest_fix *)

TLD_INFO == <<
    [key |-> <<"c","o","m">>, val |-> "Commercial (global)"],
    [key |-> <<"o","r","g">>, val |-> "Organization (non-profit)"],
    [key |-> <<"n","e","t">>, val |-> "Network / ISP"],
    [key |-> <<"e","d","u">>, val |-> "Educational institutions"],
    [key |-> <<"g","o","v">>, val |-> "Government"],
    [key |-> <<"i","n">>, val |-> "India (country code TLD)"],
    [key |-> <<"u","k">>, val |-> "United Kingdom (country code TLD)"],
    [key |-> <<"u","s">>, val |-> "United States (country code TLD)"],
    [key |-> <<"c","a">>, val |-> "Canada (country code TLD)"],
    [key |-> <<"a","u">>, val |-> "Australia (country code TLD)"] >>

\* dict.get(key, default) on a table of [key, val] rows with distinct keys
DictGet(table, key, default) ==
    IF \E i \in 1..Len(table) : table[i].key = key
    THEN table[CHOOSE i \in 1..Len(table) : table[i].key = key].val
    ELSE default

tld_info(extension) ==
    IF extension = <<>> THEN "No TLD / local"
    ELSE DictGet(TLD_INFO, lower(extension), "Unknown or custom TLD")

COMMON_FIXES == <<
    [key |-> <<"g","a","m","i","l",".","c","o","m">>,
     val |-> <<"g","m","a","i","l",".","c","o","m">>],
    [key |-> <<"g","m","a","i",".","c","o","m">>,
     val |-> <<"g","m","a","i","l",".","c","o","m">>],
    [key |-> <<"g","m","a","l",".","c","o","m">>,
     val |-> <<"g","m","a","i","l",".","c","o","m">>],
    [key |-> <<"y","a","h","o",".","c","o","m">>,
     val |-> <<"y","a","h","o","o",".","c","o","m">>],
    [key |-> <<"h","o","t","n","a","i","l",".","c","o","m">>,
     val |-> <<"h","o","t","m","a","i","l",".","c","o","m">>],
    [key |-> <<"o","u","t","l","o","k",".","c","o","m">>,
     val |-> <<"o","u","t","l","o","o","k",".","c","o","m">>],
    [key |-> <<"g","n","a","i","l",".","c","o","m">>,
     val |-> <<"g","m","a","i","l",".","c","o","m">>] >>

suggest_fix(domain_full) == DictGet(COMMON_FIXES, lower(domain_full), NoValue)

-----------------------------------------------------------------------------
(* fake_creation_year: hashlib.md5 over the encoded string (RFC 1321).      *)
(* A 32-bit word is a pair <<high half, low half>> of 16-bit numbers.       *)

\* the ASCII characters 32..126 in code order; the place of code 96 (the
\* grave accent, which a TLA+ string cannot hold) is left empty
Printable == <<
    " ", "!", "\"", "#", "$", "%", "&", "'", "(", ")", "*", "+",
    ",", "-", ".", "/", "0", "1", "2", "3", "4", "5", "6", "7",
    "8", "9", ":", ";", "<", "=", ">", "?", "@", "A", "B", "C",
    "D", "E", "F", "G", "H", "I", "J", "K", "L", "M", "N", "O",
    "P", "Q", "R", "S", "T", "U", "V", "W", "X", "Y", "Z", "[",
    "\\", "]", "^", "_", "", "a", "b", "c", "d", "e", "f", "g",
    "h", "i", "j", "k", "l", "m", "n", "o", "p", "q", "r", "s",
    "t", "u", "v", "w", "x", "y", "z", "{", "|", "}", "~" >>

\* the byte of a character under str.encode() (UTF-8), for ASCII characters
Ord(c) ==
    IF c = "\t" THEN 9
    ELSE IF c = "\n" THEN 10
    ELSE IF c = "\f" THEN 12
    ELSE IF c = "\r" THEN 13
    ELSE 31 + (CHOOSE i \in 1..Len(Printable) : Printable[i] = c)

encode(s) == [i \in 1..Len(s) |-> Ord(s[i])]

RECURSIVE BitAnd(_, _)
BitAnd(a, b) ==
    IF a = 0 \/ b = 0 THEN 0
    ELSE (IF a % 2 = 1 /\ b % 2 = 1 THEN 1 ELSE 0)
            + 2 * BitAnd(a \div 2, b \div 2)

WAnd(x, y) == <<BitAnd(x[1], y[1]), BitAnd(x[2], y[2])>>
WOr(x, y) ==
    <<x[1] + y[1] - BitAnd(x[1], y[1]), x[2] + y[2] - BitAnd(x[2], y[2])>>
WXor(x, y) ==
    <<x[1] + y[1] - 2 * BitAnd(x[1], y[1]),
      x[2] + y[2] - 2 * BitAnd(x[2], y[2])>>
WNot(x) == <<65535 - x[1], 65535 - x[2]>>

\* addition modulo 2^32
WAdd(x, y) ==
    LET lo == x[2] + y[2]
        hi == x[1] + y[1] + (lo \div 65536)
    IN  <<hi % 65536, lo % 65536>>

\* rotation to the left by s bits, 0 < s < 32
RotL(x, s) ==
    LET y == IF s >= 16 THEN <<x[2], x[1]>> ELSE x
        r == s % 16
    IN  IF r = 0 THEN y
        ELSE <<((y[1] * 2^r) % 65536) + (y[2] \div 2^(16 - r)),
               ((y[2] * 2^r) % 65536) + (y[1] \div 2^(16 - r))>>

\* per-round shift amounts
MD5Shift == <<
    7, 12, 17, 22, 7, 12, 17, 22, 7, 12, 17, 22, 7, 12, 17, 22,
    5, 9, 14, 20, 5, 9, 14, 20, 5, 9, 14, 20, 5, 9, 14, 20,
    4, 11, 16, 23, 4, 11, 16, 23, 4, 11, 16, 23, 4, 11, 16, 23,
    6, 10, 15, 21, 6, 10, 15, 21, 6, 10, 15, 21, 6, 10, 15, 21 >>

\* floor(2^32 * abs(sin(i + 1))), i = 0..63
MD5Sine == <<
    <<55146, 42104>>, <<59591, 46934>>, <<9248, 28891>>, <<49597, 52974>>,
    <<62844, 4015>>, <<18311, 50730>>, <<43056, 17939>>, <<64838, 38145>>,
    <<27008, 39128>>, <<35652, 63407>>, <<65535, 23473>>, <<35164, 55230>>,
    <<27536, 4386>>, <<64920, 29075>>, <<42617, 17294>>, <<18868, 2081>>,
    <<63006, 9570>>, <<49216, 45888>>, <<9822, 23121>>, <<59830, 51114>>,
    <<54831, 4189>>, <<580, 5203>>, <<55457, 59009>>, <<59347, 64456>>,
    <<8673, 52710>>, <<49975, 2006>>, <<62677, 3463>>, <<17754, 5357>>,
    <<43491, 59653>>, <<64751, 41976>>, <<26479, 729>>, <<36138, 19594>>,
    <<65530, 14658>>, <<34673, 63105>>, <<28061, 24866>>, <<64997, 14348>>,
    <<42174, 59972>>, <<19422, 53161>>, <<63163, 19296>>, <<48831, 48240>>,
    <<10395, 32454>>, <<60065, 10234>>, <<54511, 12421>>, <<1160, 7429>>,
    <<55764, 53305>>, <<59099, 39397>>, <<8098, 31992>>, <<50348, 22117>>,
    <<62505, 8772>>, <<17194, 65431>>, <<43924, 9127>>, <<64659, 41017>>,
    <<25947, 22979>>, <<36620, 52370>>, <<65519, 62589>>, <<34180, 24017>>,
    <<28584, 32335>>, <<65068, 59104>>, <<41729, 17172>>, <<19976, 4513>>,
    <<63315, 32386>>, <<48442, 62005>>, <<10967, 53947>>, <<60294, 54161>> >>

MD5Init == <<<<26437, 8961>>, <<61389, 43913>>, <<39098, 56574>>, <<4146, 21622>>>>

\* the message bytes, 0x80, zeros up to 56 modulo 64, and the bit length as 8
\* little-endian bytes (its upper 4 bytes are 0 for strings below 2^29 bytes)
MD5Pad(bytes) ==
    LET n == Len(bytes)
        zeros == (55 - n) % 64
        bits == 8 * n
    IN  bytes \o <<128>> \o [i \in 1..zeros |-> 0]
          \o [k \in 1..4 |-> (bits \div 256^(k - 1)) % 256]
          \o <<0, 0, 0, 0>>

\* word g (0..15) of the 64-byte block that starts after offset off
MD5Word(padded, off, g) ==
    <<padded[off + 4 * g + 3] + 256 * padded[off + 4 * g + 4],
      padded[off + 4 * g + 1] + 256 * padded[off + 4 * g + 2]>>

\* round i (0..63) on the working state st = <<A, B, C, D>>
MD5Round(st, padded, off, i) ==
    LET A == st[1]
        B == st[2]
        C == st[3]
        D == st[4]
        F == IF i < 16 THEN WOr(WAnd(B, C), WAnd(WNot(B), D))
             ELSE IF i < 32 THEN WOr(WAnd(D, B), WAnd(WNot(D), C))
             ELSE IF i < 48 THEN WXor(WXor(B, C), D)
             ELSE WXor(C, WOr(B, WNot(D)))
        g == IF i < 16 THEN i
             ELSE IF i < 32 THEN (5 * i + 1) % 16
             ELSE IF i < 48 THEN (3 * i + 5) % 16
             ELSE (7 * i) % 16
        T == WAdd(WAdd(WAdd(F, A), MD5Sine[i + 1]), MD5Word(padded, off, g))
    IN  <<D, WAdd(B, RotL(T, MD5Shift[i + 1])), B, C>>

\* rounds lo..hi-1 in order, split in halves; testing the first half's
\* result makes it a computed value before the second half starts from it
RECURSIVE MD5Rounds(_, _, _, _, _)
MD5Rounds(st, padded, off, lo, hi) ==
    IF hi = lo + 1 THEN MD5Round(st, padded, off, lo)
    ELSE
        LET mid == (lo + hi) \div 2
            half == MD5Rounds(st, padded, off, lo, mid)
        IN  IF Len(half) = 4 THEN MD5Rounds(half, padded, off, mid, hi)
            ELSE half

\* the chaining value after the blocks from offset off on
RECURSIVE MD5Blocks(_, _, _)
MD5Blocks(h, padded, off) ==
    IF off >= Len(padded) THEN h
    ELSE
        LET st == MD5Rounds(h, padded, off, 0, 64)
        IN  MD5Blocks(<<WAdd(h[1], st[1]), WAdd(h[2], st[2]),
                        WAdd(h[3], st[3]), WAdd(h[4], st[4])>>,
                      padded, off + 64)

WordBytes(w) == <<w[2] % 256, w[2] \div 256, w[1] % 256, w[1] \div 256>>

\* hashlib.md5(data).digest(): 16 bytes
md5_digest(bytes) ==
    LET h == MD5Blocks(MD5Init, MD5Pad(bytes), 0)
    IN  WordBytes(h[1]) \o WordBytes(h[2]) \o WordBytes(h[3]) \o WordBytes(h[4])

\* int(hexdigest, 16) % m: the digest read as one big-endian number, reduced
\* byte by byte
RECURSIVE DigestMod(_, _, _, _)
DigestMod(digest, i, acc, m) ==
    IF i > Len(digest) THEN acc
    ELSE DigestMod(digest, i + 1, (acc * 256 + digest[i]) % m, m)

\* fake_creation_year with the range widened by one
fake_creation_year_mod26(e) == 2000 + DigestMod(md5_digest(encode(e)), 1, 0, 26)

fake_creation_year(e) == 2000 + DigestMod(md5_digest(encode(e)), 1, 0, 25)

-----------------------------------------------------------------------------
(* Calls of validate_email and parse_email on arbitrary strings *)

\* one character of each kind the validator tells apart: a letter, a hyphen
\* (allowed on both sides of "@"), "+" (allowed before "@" only), the dot,
\* "@", and a blank (allowed nowhere, removed at the ends)
ParseAlphabet == {"a", "-", "+", ".", "@", " "}

ParseExamples == {
    <<"u","s","e","r","@","e","x","a","m","p","l","e",".","c","o","m">>,
    <<"u","s","e","r","@","s","u","b",".","e","x","a","m","p","l","e",".","c","o",".","u","k">>,
    <<"u","s","e","r",".","n","a","m","e","+","t","a","g","@","e","x","a","m","p","l","e","-","d","o","m","a","i","n",".","c","o","m">>,
    <<"r","i","d","h","y","a","r",".","@","g","m","a","i","l",".","c","o","m">>,
    <<"\t","A","_","9","@","B","-","1",".","I","O","\n">>,
    <<"u","s","e","r","@","l","o","c","a","l","h","o","s","t">>,
    <<"n","o","t","-","a","n","-","e","m","a","i","l">>,
    <<"a","@","b","@","c",".","d">>,
    <<"a","!","@","b",".","c">>,
    <<"a","@","b","_","c",".","d">> }

ParseInputs ==
    UNION {[1..n -> ParseAlphabet] : n \in 0..MaxLen} \cup ParseExamples

InitParse ==
    /\ pc = "parse_input"
    /\ email \in ParseInputs
    /\ valid = FALSE /\ parsed = NoValue
    /\ domain = NoValue /\ provider = NoProvider /\ etype = NoValue
    /\ bulk_input = NoValue /\ lines = <<>> /\ idx = 0 /\ records = <<>>
    /\ summary = NoSummary /\ email_input = NoValue /\ reportlab = FALSE
    /\ pdf_fails = FALSE /\ ui = <<>> /\ calls = {} /\ year = 0

CallValidate ==
    /\ pc = "parse_input"
    /\ valid' = validate_email(email)
    /\ pc' = "validated"
    /\ UNCHANGED <<email, parsed, domain, provider, etype, bulk_input, lines,
                   idx, records, summary, email_input, reportlab, pdf_fails,
                   ui, calls, year>>

\* both callers parse only what validate_email accepted
CallParse ==
    /\ pc = "validated"
    /\ valid
    /\ parsed' = parse_email(email)
    /\ pc' = "parsed"
    /\ UNCHANGED <<email, valid, domain, provider, etype, bulk_input, lines,
                   idx, records, summary, email_input, reportlab, pdf_fails,
                   ui, calls, year>>

NextParse == CallValidate \/ CallParse

SpecParse == InitParse /\ [][NextParse]_vars

-----------------------------------------------------------------------------
(* Properties of validate_email and parse_email *)

\* t is s without its leading and trailing whitespace
IsTrimOf(t, s) ==
    \E a \in 0..Len(s) : \E b \in a..Len(s) :
        /\ t = SubSeq(s, a + 1, b)
        /\ \A i \in 1..a : s[i] \in Whitespace
        /\ \A i \in (b + 1)..Len(s) : s[i] \in Whitespace
        /\ t # <<>> => (t[1] \notin Whitespace /\ t[Len(t)] \notin Whitespace)

\* d is one or more non-empty labels of letters, digits and hyphens, joined
\* by dots
IsDottedLabels(d) ==
    /\ d # <<>>
    /\ AllIn(d, LabelClass \cup {"."})
    /\ d[1] # "." /\ d[Len(d)] # "."
    /\ \A i \in 1..(Len(d) - 1) : ~(d[i] = "." /\ d[i + 1] = ".")

\* t has the form local-part@domain of the specification's section 4.1
HasSpecForm(t) ==
    \E i \in 1..Len(t) :
        /\ t[i] = "@"
        /\ i > 1
        /\ AllIn(SubSeq(t, 1, i - 1), LocalClass)
        /\ IsDottedLabels(SubSeq(t, i + 1, Len(t)))

\* C1: validate_email returns true iff the trimmed input is local-part@domain
\* with a non-empty local part of letters, digits and . _ + - and a domain of
\* one or more dot-separated labels of letters, digits and hyphens; false for
\* the empty string and for every string without "@".
C1_ValidatorMatchesSpecForm ==
    pc # "parse_input" =>
        /\ \A t \in {SubSeq(email, a + 1, b) :
                        a \in 0..Len(email), b \in 0..Len(email)} :
               IsTrimOf(t, email) => (valid <=> HasSpecForm(t))
        /\ (email = <<>> \/ ~HasChar(email, "@")) => ~valid

\* C2: for every accepted string, username + "@" + domain_full is the input
\* with leading and trailing whitespace removed.
C2_ParseRejoinsToTrimmedInput ==
    pc = "parsed" =>
        IsTrimOf(parsed.username \o <<"@">> \o parsed.domain_full, email)

C2_Witness ==
    /\ pc = "parsed"
    /\ email[1] \in Whitespace
    /\ email[Len(email)] \in Whitespace
    /\ Len(parsed.username) > 0

\* C3: for every accepted string, the domain label is the first dot-separated
\* segment of the domain; the extension is the last segment when there is more
\* than one segment and empty otherwise; the domain is the label followed by
\* the remaining segments and ends with the extension.
C3_LabelFirstExtensionLast ==
    pc = "parsed" =>
        LET d == parsed.domain_full
            n == parsed.domain_name
            x == parsed.extension
        IN  /\ ~HasChar(n, ".") /\ ~HasChar(x, ".")
            /\ startswith(d, n)
            /\ d = n \/ d[Len(n) + 1] = "."
            /\ IF HasChar(d, ".") THEN endswith(d, <<".">> \o x)
               ELSE x = <<>>
            /\ email = <<"u","s","e","r","@","s","u","b",".","e","x","a","m","p","l","e",".","c","o",".","u","k">>
                 => n = <<"s","u","b">> /\ x = <<"u","k">>

C3_Witness ==
    /\ pc = "parsed"
    /\ Len(split(parsed.domain_full, ".")) >= 3
    /\ parsed.domain_name # parsed.extension
    /\ parsed.extension # <<>>

-----------------------------------------------------------------------------
(* Calls of provider_insights and detect_email_type on arbitrary domains *)

ClassifyLabels == {
    <<"g","m","a","i","l">>,
    <<"m","a","i","l">>,
    <<"l","i","v","e">>,
    <<"c","o","m">>,
    <<"e","d","u">>,
    <<"g","o","v">>,
    <<"a","c">>,
    <<"i","n">>,
    <<"x">>,
    <<"G","M","X">> }

RECURSIVE JoinDots(_)
JoinDots(ls) ==
    IF Len(ls) = 1 THEN ls[1] ELSE ls[1] \o <<".">> \o JoinDots(Tail(ls))

upper_char(c) ==
    IF c \in Range(LowerCase)
    THEN UpperCase[CHOOSE i \in 1..Len(LowerCase) : LowerCase[i] = c]
    ELSE c

\* every table key as it is, under a subdomain, glued to a longer label, and
\* in capitals
KeyVariants ==
    UNION {{mapping[i].key,
            <<"m","x",".">> \o mapping[i].key,
            <<"m","y">> \o mapping[i].key,
            [j \in 1..Len(mapping[i].key) |-> upper_char(mapping[i].key[j])]}
           : i \in 1..Len(mapping)}

ClassifyInputs ==
    {JoinDots(ls) : ls \in UNION {[1..n -> ClassifyLabels] : n \in 1..MaxLabels}}
        \cup KeyVariants

InitClassify ==
    /\ pc = "classify_input"
    /\ domain \in ClassifyInputs
    /\ provider = NoProvider /\ etype = NoValue
    /\ email = NoValue /\ valid = FALSE /\ parsed = NoValue
    /\ bulk_input = NoValue /\ lines = <<>> /\ idx = 0 /\ records = <<>>
    /\ summary = NoSummary /\ email_input = NoValue /\ reportlab = FALSE
    /\ pdf_fails = FALSE /\ ui = <<>> /\ calls = {} /\ year = 0

CallProviderInsights ==
    /\ pc = "classify_input"
    /\ provider' = provider_insights(domain)
    /\ pc' = "provider_done"
    /\ UNCHANGED <<email, valid, parsed, domain, etype, bulk_input, lines,
                   idx, records, summary, email_input, reportlab, pdf_fails,
                   ui, calls, year>>

CallDetectEmailType ==
    /\ pc = "provider_done"
    /\ etype' = detect_email_type(domain)
    /\ pc' = "classified"
    /\ UNCHANGED <<email, valid, parsed, domain, provider, bulk_input, lines,
                   idx, records, summary, email_input, reportlab, pdf_fails,
                   ui, calls, year>>

NextClassify == CallProviderInsights \/ CallDetectEmailType

SpecClassify == InitClassify /\ [][NextClassify]_vars

-----------------------------------------------------------------------------
(* Properties of the classifiers *)

\* key equals d or is a suffix of d that starts right after a dot
IsKeyOrDotSuffix(d, key) ==
    \/ d = key
    \/ \E n \in 1..Len(d) :
          /\ d[n] = "."
          /\ SubSeq(d, n + 1, Len(d)) = key

\* positions of the table entries that match the lower-cased domain
MatchingEntries(dom) ==
    {i \in 1..Len(mapping) : IsKeyOrDotSuffix(lower(dom), mapping[i].key)}

Min(S) == CHOOSE m \in S : \A n \in S : m <= n

EndsWithLabels(dom, suffix) ==
    /\ Len(dom) >= Len(suffix)
    /\ \A k \in 1..Len(suffix) :
          lower(dom)[Len(dom) - Len(suffix) + k] = suffix[k]

HasPersonalKeyword(dom) ==
    \E i \in 1..Len(personal_keywords) :
        \E n \in 0..(Len(dom) - Len(personal_keywords[i])) :
            \A k \in 1..Len(personal_keywords[i]) :
                lower(dom)[n + k] = personal_keywords[i][k]

\* C4: provider_insights is total; it returns the first table entry, in
\* declaration order, whose key equals the lower-cased domain or is a
\* dot-delimited suffix of it; with no such entry, the educational entry for
\* a domain ending in .edu, else the government entry for one ending in .gov,
\* else the generic "Custom / Organization" entry.
C4_ProviderFirstMatchElseFallback ==
    pc \in {"provider_done", "classified"} =>
        LET M == MatchingEntries(domain)
        IN  /\ provider # NoProvider
            /\ IF M # {}
               THEN /\ provider.provider_name = mapping[Min(M)].val[1]
                    /\ provider.provider_type = mapping[Min(M)].val[2]
                    /\ provider.notes = mapping[Min(M)].val[3]
               ELSE IF EndsWithLabels(domain, <<".","e","d","u">>)
               THEN provider.provider_name = "Educational (edu)"
               ELSE IF EndsWithLabels(domain, <<".","g","o","v">>)
               THEN provider.provider_name = "Government (gov)"
               ELSE provider.provider_name = "Custom / Organization"

\* a table entry found through a subdomain typed in capitals
C4_Witness ==
    /\ pc = "provider_done"
    /\ MatchingEntries(domain) # {}
    /\ lower(domain) # domain
    /\ \A i \in 1..Len(mapping) : lower(domain) # mapping[i].key

\* C5: detect_email_type returns exactly one of the four categories, by fixed
\* precedence: Personal when the lower-cased domain contains a provider
\* keyword, even if it also ends in .edu, .ac.in, .edu.in or .gov; otherwise
\* Educational/Academic for .edu, .ac.in, .edu.in; otherwise Government for
\* .gov; otherwise Business/Organizational.
C5_EmailTypePrecedence ==
    pc = "classified" =>
        etype = IF HasPersonalKeyword(domain) THEN "Personal Email"
                ELSE IF \/ EndsWithLabels(domain, <<".","e","d","u">>)
                        \/ EndsWithLabels(domain, <<".","a","c",".","i","n">>)
                        \/ EndsWithLabels(domain, <<".","e","d","u",".","i","n">>)
                THEN "Educational / Academic Email"
                ELSE IF EndsWithLabels(domain, <<".","g","o","v">>)
                THEN "Government Email"
                ELSE "Business / Organizational Email"

\* a domain with a provider keyword that also ends in an academic suffix
C5_Witness ==
    /\ pc = "classified"
    /\ HasPersonalKeyword(domain)
    /\ EndsWithLabels(domain, <<".","a","c",".","i","n">>)
    /\ etype = "Personal Email"

\* C10: whenever provider_insights resolves the domain to a provider-table
\* entry, detect_email_type returns the Personal category for it, i.e. every
\* provider-table key contains a personal keyword.
C10_KnownProviderIsPersonal ==
    pc = "classified" =>
        \A i \in MatchingEntries(domain) :
            /\ etype = "Personal Email"
            /\ HasPersonalKeyword(mapping[i].key)

-----------------------------------------------------------------------------
(* Bulk analysis handler (if analyze_bulk_btn) *)

LineBreaks == {"\n", "\r", "\f"}

\* first position of a line break in s, 0 if none
RECURSIVE find_break(_, _)
find_break(s, from) ==
    IF from > Len(s) THEN 0
    ELSE IF s[from] \in LineBreaks THEN from
    ELSE find_break(s, from + 1)

\* str.splitlines(): the lines without their line breaks ("\r\n" is one
\* break), and no last empty line after a final break
RECURSIVE splitlines(_)
splitlines(s) ==
    IF s = <<>> THEN <<>>
    ELSE
        LET i == find_break(s, 1)
            after == IF i > 0 /\ i < Len(s) /\ s[i] = "\r" /\ s[i + 1] = "\n"
                     THEN i + 2 ELSE i + 1
        IN  IF i = 0 THEN <<s>>
            ELSE <<SubSeq(s, 1, i - 1)>> \o splitlines(SubSeq(s, after, Len(s)))

\* [l.strip() for l in ls if l.strip()]
RECURSIVE strip_nonblank(_)
strip_nonblank(ls) ==
    IF ls = <<>> THEN <<>>
    ELSE IF strip(Head(ls)) = <<>> THEN strip_nonblank(Tail(ls))
    ELSE <<strip(Head(ls))>> \o strip_nonblank(Tail(ls))

\* the dict built for a line that passed validate_email, with suggest_fix
\* added by the second "if valid"
valid_record(e) ==
    LET p == parse_email(e)
        fix == suggest_fix(p.domain_full)
    IN  [original |-> e,
         username |-> p.username,
         domain |-> p.domain_full,
         extension |-> p.extension,
         username_len |-> Len(p.username),
         domain_len |-> Len(p.domain_full),
         extension_len |-> Len(p.extension),
         provider |-> provider_insights(p.domain_full).provider_name,
         type |-> detect_email_type(p.domain_full),
         tld_info |-> tld_info(p.extension),
         creation_year_est |-> fake_creation_year(e),
         suggest_fix |-> IF fix # NoValue THEN p.username \o <<"@">> \o fix
                         ELSE <<>>]

\* the error dict that also gets the suggest_fix key of the later "if"
error_record_with_fix(e) ==
    [original |-> e, error |-> "Invalid format", suggest_fix |-> <<>>]

error_record(e) == [original |-> e, error |-> "Invalid format"]

\* one pass of the for loop body
bulk_record(e) == IF validate_email(e) THEN valid_record(e) ELSE error_record(e)

\* a missing cell of a DataFrame
NaN == "NaN"

\* pd.DataFrame(records): the columns are the keys of all records, and a
\* record without a key has NaN in that column
DataFrame(recs) ==
    LET columns == UNION {DOMAIN recs[i] : i \in 1..Len(recs)}
    IN  [columns |-> columns,
         rows |-> [i \in 1..Len(recs) |->
                     [c \in columns |-> IF c \in DOMAIN recs[i] THEN recs[i][c]
                                        ELSE NaN]]]

\* the except branch counting the records that have the key
count_valid_inverted(recs) ==
    LET df == DataFrame(recs)
    IN  IF "error" \in df.columns
        THEN [via |-> "isna",
              n |-> Cardinality({i \in 1..Len(df.rows) :
                                    df.rows[i]["error"] = NaN})]
        ELSE [via |-> "except",
              n |-> Cardinality({i \in 1..Len(recs) :
                                    "error" \in DOMAIN recs[i]})]

\* the try/except computing valid_count: df["error"] raises KeyError when no
\* record has the key, and the except branch counts over the records
count_valid(recs) ==
    LET df == DataFrame(recs)
    IN  IF "error" \in df.columns
        THEN [via |-> "isna",
              n |-> Cardinality({i \in 1..Len(df.rows) :
                                    df.rows[i]["error"] = NaN})]
        ELSE [via |-> "except",
              n |-> Cardinality({i \in 1..Len(recs) :
                                    "error" \notin DOMAIN recs[i]})]

\* the list comprehension that fills "lines"
bulk_lines(text) == strip_nonblank(splitlines(text))

BulkLines == {
    <<"a","@","g","m","a","i","l",".","c","o","m">>,
    <<"n","o","t","-","a","n","-","e","m","a","i","l">>,
    <<>>,
    <<" ">>,
    <<" ","b","@","g","a","m","i","l",".","c","o","m">>,
    <<"c","@","u","n","i",".","e","d","u"," ">> }

RECURSIVE JoinLines(_)
JoinLines(ls) ==
    IF Len(ls) = 1 THEN ls[1] ELSE ls[1] \o <<"\n">> \o JoinLines(Tail(ls))

BulkInputs ==
    {JoinLines(ls) : ls \in UNION {[1..n -> BulkLines] : n \in 1..MaxLines}}

InitBulk ==
    /\ pc = "bulk_clicked"
    /\ bulk_input \in BulkInputs
    /\ lines = <<>> /\ idx = 0 /\ records = <<>> /\ summary = NoSummary
    /\ ui = <<>>
    /\ email = NoValue /\ valid = FALSE /\ parsed = NoValue
    /\ domain = NoValue /\ provider = NoProvider /\ etype = NoValue
    /\ email_input = NoValue /\ reportlab = FALSE /\ pdf_fails = FALSE
    /\ calls = {} /\ year = 0

\* lines 350-354: build "lines"; warn and stop if there is none
BulkStart ==
    /\ pc = "bulk_clicked"
    /\ lines' = bulk_lines(bulk_input)
    /\ IF lines' = <<>>
       THEN /\ ui' = Append(ui, "warning: paste at least one email")
            /\ pc' = "bulk_done"
            /\ idx' = idx
       ELSE /\ ui' = ui
            /\ pc' = "bulk_loop"
            /\ idx' = 1
    /\ records' = <<>>
    /\ UNCHANGED <<email, valid, parsed, domain, provider, etype, bulk_input,
                   summary, email_input, reportlab, pdf_fails, calls, year>>

\* lines 355-380: one iteration of "for e in lines"
BulkIterate ==
    /\ pc = "bulk_loop"
    /\ idx <= Len(lines)
    /\ records' = Append(records, bulk_record(lines[idx]))
    /\ idx' = idx + 1
    /\ UNCHANGED <<pc, email, valid, parsed, domain, provider, etype,
                   bulk_input, lines, summary, email_input, reportlab,
                   pdf_fails, ui, calls, year>>

\* lines 381-396: table, CSV download and the summary counts
BulkReport ==
    /\ pc = "bulk_loop"
    /\ idx > Len(lines)
    /\ LET c == count_valid(records)
       IN  /\ summary' = [processed |-> Len(records), valid_count |-> c.n,
                          via |-> c.via]
           /\ ui' = ui \o <<"dataframe", "download: csv", "info: summary">>
    /\ pc' = "bulk_done"
    /\ UNCHANGED <<email, valid, parsed, domain, provider, etype, bulk_input,
                   lines, idx, records, email_input, reportlab, pdf_fails,
                   calls, year>>

NextBulk == BulkStart \/ BulkIterate \/ BulkReport

SpecBulk == InitBulk /\ [][NextBulk]_vars

-----------------------------------------------------------------------------
(* Properties of the bulk handler *)

\* positions that end a line of text: every "\n", and the end of the text
\* when its last line has no "\n"
LineEnds(text) ==
    {i \in 1..Len(text) : text[i] = "\n"}
        \cup (IF text # <<>> /\ text[Len(text)] # "\n" THEN {Len(text) + 1}
              ELSE {})

\* the k-th smallest element of a set of numbers
Kth(S, k) == CHOOSE x \in S : Cardinality({y \in S : y < x}) = k - 1

\* the k-th line of text, as typed
InputLine(text, k) ==
    LET stop == Kth(LineEnds(text), k)
        start == IF k = 1 THEN 1 ELSE Kth(LineEnds(text), k - 1) + 1
    IN  SubSeq(text, start, stop - 1)

IsBlank(l) == \A i \in 1..Len(l) : l[i] \in Whitespace

\* numbers of the lines of text that are not blank
NonBlank(text) ==
    {k \in 1..Cardinality(LineEnds(text)) : ~IsBlank(InputLine(text, k))}

ValidFields ==
    {"original", "username", "domain", "extension", "username_len",
     "domain_len", "extension_len", "provider", "type", "tld_info",
     "creation_year_est", "suggest_fix"}

IsErrorRecord(r, l) ==
    /\ DOMAIN r = {"original", "error"}
    /\ r.original = l
    /\ r.error = "Invalid format"

IsSuccessRecord(r, l) ==
    /\ DOMAIN r = ValidFields
    /\ r.original = l
    /\ r.username \o <<"@">> \o r.domain = l
    /\ r.username_len = Len(r.username)
    /\ r.domain_len = Len(r.domain)
    /\ r.extension_len = Len(r.extension)
    /\ r.provider = provider_insights(r.domain).provider_name
    /\ r.type = detect_email_type(r.domain)
    /\ r.creation_year_est \in 2000..2024

\* C6 as stated: exactly one record per input line, in input order; a line
\* that fails validate_email gives exactly {original: the line, error:
\* "Invalid format"}, a line that passes gives a full record without an error
\* field; an invalid line does not stop the lines after it. ("The line" is
\* read up to surrounding whitespace, and only inputs that got analysed are
\* looked at.)
C6_OneRecordPerInputLine ==
    (pc = "bulk_done" /\ records # <<>>) =>
        /\ Len(records) = Cardinality(LineEnds(bulk_input))
        /\ \A k \in 1..Len(records) :
              LET raw == InputLine(bulk_input, k)
              IN  /\ IsTrimOf(records[k].original, raw)
                  /\ IF validate_email(raw)
                     THEN IsSuccessRecord(records[k], records[k].original)
                     ELSE IsErrorRecord(records[k], records[k].original)

\* C6 amended: exactly one record per non-blank input line, in input order,
\* each about the line with its leading and trailing whitespace removed
\* (blank lines give no record, and an input of blank lines only gives none
\* at all); a line that fails validate_email gives exactly {original, error:
\* "Invalid format"}, a line that passes gives a full record without an error
\* field; an invalid line does not stop the lines after it.
C6_OneRecordPerNonBlankLine ==
    pc = "bulk_done" =>
        /\ Len(records) = Cardinality(NonBlank(bulk_input))
        /\ \A k \in 1..Len(records) :
              LET raw == InputLine(bulk_input, Kth(NonBlank(bulk_input), k))
              IN  /\ IsTrimOf(records[k].original, raw)
                  /\ IF validate_email(raw)
                     THEN IsSuccessRecord(records[k], records[k].original)
                     ELSE IsErrorRecord(records[k], records[k].original)

\* an invalid line, then a blank line, then a padded valid line: all handled
C6_Witness ==
    /\ pc = "bulk_done"
    /\ Len(records) = 2
    /\ Cardinality(LineEnds(bulk_input)) = 3
    /\ "error" \in DOMAIN records[1]
    /\ "error" \notin DOMAIN records[2]
    /\ records[2].suggest_fix # <<>>

\* C7: the summary "processed N rows - M valid" has N = number of records and
\* M = number of records that are not error records, whether all lines are
\* valid, all invalid or mixed; a@gmail.com, not-an-email reports 2 and 1.
C7_SummaryCounts ==
    summary # NoSummary =>
        /\ pc = "bulk_done"
        /\ summary.processed = Len(records)
        /\ summary.valid_count =
              Cardinality({i \in 1..Len(records) :
                              DOMAIN records[i] # {"original", "error"}})
        /\ bulk_input = <<"a","@","g","m","a","i","l",".","c","o","m","\n","n","o","t","-","a","n","-","e","m","a","i","l">>
              => summary.processed = 2 /\ summary.valid_count = 1

\* every line valid: no record has an error field, and the count comes from
\* the except branch
C7_Witness ==
    /\ summary # NoSummary
    /\ summary.via = "except"
    /\ summary.processed = 2
    /\ summary.valid_count = 2

-----------------------------------------------------------------------------
(* Single analysis handler (if analyze_btn) *)

\* lines 229-234: what the handler shows instead of an analysis, <<>> when
\* the input is analysed
rejection(e) ==
    IF e = <<>> THEN <<"warning: please enter an email address">>
    ELSE IF ~validate_email(e)
    THEN <<"error: not a valid email format", "info: example valid format">>
    ELSE <<>>

\* lines 236-324: the widgets of the analysis up to the TXT download button
analysis_widgets(p, fix) ==
    <<"success: parsed", "code: username", "metric: username length",
      "code: domain", "metric: domain length", "code: extension",
      "metric: extension length", "write: provider", "write: email type",
      "info: tld">>
      \o (IF fix # NoValue THEN <<"warning: possible typo">> ELSE <<>>)
      \o <<"write: creation year", "pyplot: bar chart", "pyplot: pie chart",
           "download: txt">>

\* the PDF section with no try/except: a failure ends the script run
pdf_section_uncaught(available, fails) ==
    IF available
    THEN IF fails THEN <<"uncaught exception">>
         ELSE <<"download: pdf", "info: quick tips">>
    ELSE <<"info: pdf export not available", "info: quick tips">>

\* lines 326-346: the PDF section and the closing tips; make_pdf_bytes either
\* returns the bytes or raises, and the handler catches what it raises
pdf_section(available, fails) ==
    IF available
    THEN IF fails
         THEN <<"error: pdf generation failed", "exception", "info: quick tips">>
         ELSE <<"download: pdf", "info: quick tips">>
    ELSE <<"info: pdf export not available", "info: quick tips">>

SingleExamples == {
    <<"a","@","g","m","a","i","l",".","c","o","m">>,
    <<"u","s","e","r",".","n","a","m","e","+","t","a","g","@","e","x","a","m","p","l","e","-","d","o","m","a","i","n",".","c","o","m">>,
    <<"r","i","d","h","y","a","r",".","@","g","m","a","i","l",".","c","o","m">>,
    <<>>,
    <<" "," "," ">>,
    <<"n","o","t","-","a","n","-","e","m","a","i","l">>,
    <<"u","s","e","r","@","l","o","c","a","l","h","o","s","t">>,
    <<" ","b","@","g","a","m","i","l",".","c","o","m"," ">>,
    <<"a","@","b","@","c",".","d">> }

SingleUsers == {
    <<"a">>,
    <<"u",".","x","+","t">> }

SingleLabels == {
    <<"g","m","a","i","l">>,
    <<"c","o","m">>,
    <<"e","d","u">>,
    <<"x">> }

\* user@domain for domains of 2..MaxLabels labels, and the examples
SingleInputs ==
    {u \o <<"@">> \o JoinDots(ls) :
        u \in SingleUsers,
        ls \in UNION {[1..n -> SingleLabels] : n \in 2..MaxLabels}}
      \cup SingleExamples

InitSingle ==
    /\ pc = "single_clicked"
    /\ email_input \in SingleInputs
    /\ reportlab \in BOOLEAN
    /\ pdf_fails = FALSE /\ ui = <<>> /\ calls = {} /\ year = 0
    /\ email = NoValue /\ valid = FALSE /\ parsed = NoValue
    /\ domain = NoValue /\ provider = NoProvider /\ etype = NoValue
    /\ bulk_input = NoValue /\ lines = <<>> /\ idx = 0 /\ records = <<>>
    /\ summary = NoSummary

\* lines 229-235: strip, then warn, reject or go on
SingleStart ==
    /\ pc = "single_clicked"
    /\ email' = strip(email_input)
    /\ valid' = (email' # <<>> /\ validate_email(email'))
    /\ calls' = IF email' # <<>> THEN {"validate_email"} ELSE {}
    /\ ui' = ui \o rejection(email')
    /\ pc' = IF rejection(email') = <<>> THEN "single_analyze" ELSE "single_done"
    /\ UNCHANGED <<parsed, domain, provider, etype, bulk_input, lines, idx,
                   records, summary, email_input, reportlab, pdf_fails, year>>

\* lines 236-324: parse, classify, show, build the report, offer the TXT
SingleAnalyze ==
    /\ pc = "single_analyze"
    /\ parsed' = parse_email(email)
    /\ domain' = parsed'.domain_full
    /\ provider' = provider_insights(domain')
    /\ etype' = detect_email_type(domain')
    /\ year' = fake_creation_year(email)
    /\ calls' = calls \cup {"parse_email", "provider_insights",
                            "detect_email_type", "tld_info", "suggest_fix",
                            "fake_creation_year", "make_report"}
    /\ ui' = ui \o analysis_widgets(parsed', suggest_fix(domain'))
    /\ pc' = "single_pdf"
    /\ UNCHANGED <<email, valid, bulk_input, lines, idx, records, summary,
                   email_input, reportlab, pdf_fails>>

\* lines 326-346: the PDF download, or why there is none; then the tips
SinglePdf ==
    /\ pc = "single_pdf"
    /\ \E fails \in BOOLEAN :
          /\ fails => reportlab
          /\ pdf_fails' = fails
          /\ ui' = ui \o pdf_section(reportlab, fails)
    /\ pc' = "single_done"
    /\ UNCHANGED <<email, valid, parsed, domain, provider, etype, bulk_input,
                   lines, idx, records, summary, email_input, reportlab,
                   calls, year>>

NextSingle == SingleStart \/ SingleAnalyze \/ SinglePdf

SpecSingle == InitSingle /\ [][NextSingle]_vars

-----------------------------------------------------------------------------
(* Properties of the single handler *)

Shown(w) == \E i \in 1..Len(ui) : ui[i] = w

\* position of widget w in ui, 0 if it is not shown
PlaceOf(w) == IF Shown(w) THEN CHOOSE i \in 1..Len(ui) : ui[i] = w ELSE 0

\* C8: when the input passes validate_email the TXT download is offered
\* whatever the PDF capability: without the renderer an informational message
\* is shown, a failing PDF generation is caught and shown as an error, and in
\* neither case is the TXT withheld or the analysis aborted. When the input
\* fails validate_email a rejection message is shown (the warning for a blank
\* input, the error with the usage example otherwise) and no parsing,
\* classification or report step runs.
C8_TxtAlwaysOfferedRejectionStops ==
    pc = "single_done" =>
        IF validate_email(email_input)
        THEN /\ Shown("download: txt")
             /\ Shown("info: quick tips")
             /\ PlaceOf("download: txt") < PlaceOf("info: quick tips")
             /\ ~reportlab =>
                   Shown("info: pdf export not available")
                     /\ ~Shown("download: pdf")
             /\ (reportlab /\ pdf_fails) =>
                   Shown("error: pdf generation failed")
                     /\ ~Shown("download: pdf")
             /\ (reportlab /\ ~pdf_fails) => Shown("download: pdf")
             /\ {"parse_email", "make_report"} \subseteq calls
        ELSE /\ \/ Shown("error: not a valid email format")
                      /\ Shown("info: example valid format")
                \/ Shown("warning: please enter an email address")
                      /\ IsBlank(email_input)
             /\ calls \subseteq {"validate_email"}
             /\ parsed = NoValue /\ provider = NoProvider /\ year = 0
             /\ ~Shown("download: txt") /\ ~Shown("download: pdf")
             /\ Len(ui) <= 2

\* the renderer is present and PDF generation raised: the TXT is there
C8_Witness ==
    /\ pc = "single_done"
    /\ reportlab /\ pdf_fails
    /\ Shown("download: txt")
    /\ Shown("error: pdf generation failed")

\* C9: fake_creation_year returns, for every email string, 2000 plus the MD5
\* hash of the string modulo 25, an integer in 2000..2024 that depends on the
\* string alone (the values hashlib gives for three sample addresses are the
\* ones computed here).
C9_CreationYearInRange ==
    "fake_creation_year" \in calls =>
        /\ year \in 2000..2024
        /\ email = <<"a","@","g","m","a","i","l",".","c","o","m">> => year = 2022
        /\ email = <<"u","s","e","r",".","n","a","m","e","+","t","a","g","@","e","x","a","m","p","l","e","-","d","o","m","a","i","n",".","c","o","m">>
             => year = 2003
        /\ email = <<"r","i","d","h","y","a","r",".","@","g","m","a","i","l",".","c","o","m">> => year = 2005

C9_Witness ==
    /\ "fake_creation_year" \in calls
    /\ year = 2024

=============================================================================
